---- MODULE Spec2Model ----
(***************************************************************************)
(* USB-PD sink: the Protocol Engine (src/src/protocol_engine.rs) and the   *)
(* Policy Engine (src/src/policy_engine.rs) as one cooperative task.       *)
(* One action per suspension point (a PHY call or a timer expiry): the     *)
(* action takes the PHY's outcome as input and runs the code up to the     *)
(* next suspension point.  The PHY and the Source behind it are the        *)
(* environment: every outcome the PHY interface allows can happen.         *)
(***************************************************************************)
EXTENDS Integers, Sequences, FiniteSets, TLC

\* ----- bounds of the environment --------------------------------------
\* Inbound frames carry message ids 0..MaxRxId.
MaxRxId == 2

\* ----- program constants ----------------------------------------------
RETRY_COUNT == 3

OperatingCurrentMa == 100

\* Option<u3>::None
None == -1

\* ----- protocol/header.rs ---------------------------------------------
\* ControlMessageType discriminants
GoodCRC == 1
Accept == 3
Reject == 4
Ping == 5
PsRdy == 6
GetSinkCap == 8
DrSwap == 9
Wait == 12
SoftReset == 13

\* DataMessageType discriminants
SourceCapabilites == 1
Request == 2
SinkCapabilities == 4
VendorDefined == 15

\* ControlMessageType::from(u4), with the #[fallback] variant
ControlMessageType(v) ==
    CASE v = 1 -> "GoodCRC"
      [] v = 2 -> "GotoMin"
      [] v = 3 -> "Accept"
      [] v = 4 -> "Reject"
      [] v = 5 -> "Ping"
      [] v = 6 -> "PsRdy"
      [] v = 7 -> "GetSourceCap"
      [] v = 8 -> "GetSinkCap"
      [] v = 9 -> "DrSwap"
      [] v = 10 -> "PrSwap"
      [] v = 11 -> "VconnSwap"
      [] v = 12 -> "Wait"
      [] v = 13 -> "SoftReset"
      [] OTHER -> "Reserved"

\* DataMessageType::from(u4), with the #[fallback] variant
DataMessageType(v) ==
    CASE v = 1 -> "SourceCapabilites"
      [] v = 2 -> "Request"
      [] v = 3 -> "Bist"
      [] v = 4 -> "SinkCapabilities"
      [] v = 15 -> "VendorDefined"
      [] OTHER -> "Reserved"

\* Header::new: the 16-bit header, fields from the least significant bit
HeaderNew(mt, r1, pdr, rev, ppr, id, nobj, r2) ==
    mt + 16 * r1 + 32 * pdr + 64 * rev + 256 * ppr + 512 * id
       + 4096 * nobj + 32768 * r2

message_type(h) == h % 16

message_id(h) == (h \div 512) % 8

number_of_data_objects(h) == (h \div 4096) % 8

set_message_type(h, mt) == h - message_type(h) + mt

set_message_id(h, id) == h - 512 * message_id(h) + 512 * id

set_number_of_data_objects(h, n) == h - 4096 * number_of_data_objects(h) + 4096 * n

\* ProtocolEngine::new: UFP, Revision 2.0, Sink
header_template == HeaderNew(0, 0, 0, 1, 0, 0, 0, 0)

\* ----- protocol/request.rs, protocol/sink_capabilities.rs -------------
\* Request::new(...).into(): the 32-bit request data object
RequestNew(min_cur, cur, r1, no_susp, comm, mismatch, give_back, pos, r2) ==
    min_cur + 1024 * cur + 1048576 * r1 + 16777216 * no_susp
        + 33554432 * comm + 67108864 * mismatch + 134217728 * give_back
        + 268435456 * pos

\* sink_capabilities::FixedSupply::new(...).into()
FixedSupplyNew(cur, volt, r1, drd, comm, unconstrained, higher, dpr, tag) ==
    cur + 1024 * volt + 1048576 * r1 + 33554432 * drd + 67108864 * comm
        + 134217728 * unconstrained + 268435456 * higher + 536870912 * dpr
        + 1073741824 * (tag % 2)

\* u10::new(value): the value, or a panic when it does not fit 10 bits
U10New(v) ==
    IF v > 1023 THEN {[kind |-> "panic", value |-> None]}
    ELSE {[kind |-> "ok", value |-> v]}

\* PolicyEngine::new(protocol_engine, operating_current_ma): the outcomes of
\* u10::new((operating_current_ma + 9) / 10) in u16 arithmetic. When the
\* addition overflows, a build with overflow checks panics and one without
\* wraps modulo 2^16.
PolicyEngineNew(operating_current_ma) ==
    LET sum == operating_current_ma + 9
    IN IF sum > 65535
       THEN {[kind |-> "panic", value |-> None]} \cup U10New((sum % 65536) \div 10)
       ELSE U10New(sum \div 10)

\* PolicyEngine::new: (operating_current_ma + 9) / 10
operating_current == (OperatingCurrentMa + 9) \div 10

\* ----- messages and frames --------------------------------------------
Control(t) == [kind |-> "Control", type |-> t, objs |-> <<>>]

Data(t, objs) == [kind |-> "Data", type |-> t, objs |-> objs]

NoMsg == [kind |-> "None", type |-> "None", objs |-> <<>>]

\* A frame as the PHY hands it over: n bytes, the header in the first two,
\* the 32-bit words after it.
Frame(h, words) == [hdr |-> h, n |-> 2 + 4 * Len(words), words |-> words]

NoFrame == [hdr |-> -1, n |-> 0, words |-> <<>>]

\* Headers as a Source builds them: DFP, Revision 2.0, Source.
SourceHeader(mt, id, nobj) == HeaderNew(mt, 0, 1, 1, 1, id, nobj, 0)

\* A fixed 5 V / 3 A source PDO
SourcePdo == 300 + 1024 * 100

RxControlTypes == {0, GoodCRC, Accept, Reject, Ping, PsRdy, GetSinkCap, DrSwap, Wait, SoftReset}

RxDataTypes == {SourceCapabilites, Request, VendorDefined}

RxIds == 0 .. MaxRxId

WellFormedFrames ==
    {Frame(SourceHeader(mt, id, 0), <<>>) : mt \in RxControlTypes, id \in RxIds}
      \cup {Frame(SourceHeader(mt, id, 1), <<SourcePdo>>) : mt \in RxDataTypes, id \in RxIds}

\* A one-byte frame, a header that announces one object without it, and a
\* header that announces no object followed by one.
MalformedFrames ==
    {[hdr |-> 0, n |-> 1, words |-> <<>>],
     [hdr |-> SourceHeader(SourceCapabilites, 0, 1), n |-> 2, words |-> <<>>],
     [hdr |-> SourceHeader(Ping, 0, 0), n |-> 6, words |-> <<SourcePdo>>]}

RxFrames == WellFormedFrames \cup MalformedFrames

\* ----- state -----------------------------------------------------------
VARIABLES
    pc,             \* suspension point the task is parked at
    ctx,            \* which await of the Policy Engine the Protocol Engine serves
    timer,          \* with_timeout scope of PolicyEngine::receive_timeout
    ready,          \* PolicyEngine::run's ready flag
    rx_message_id,  \* ProtocolEngine.rx_message_id
    tx_message_id,  \* ProtocolEngine.tx_message_id
    rx_frame,       \* receive(): the frame read, awaiting its GoodCRC
    tx_msg,         \* transmit(): msg
    tx_header,      \* transmit(): tx_header
    retry,          \* transmit(): _retry
    ok,             \* transmit(): ok
    result,         \* what run() has returned, "running" before
    sent,           \* history: frames the current transmit call handed to the PHY
    hist,           \* history: id of the last delivered frame and whether its
                    \* GoodCRC went out, SoftReset sent since, hard reset sent,
                    \* id of the last frame transmit consumed since
    ev,             \* history: what the last step did
    pe_new,         \* PolicyEngine::new: its argument operating_current_ma and
                    \* its outcome, of kind "pending" before the call
    scenario        \* observer of scenario S1 (spec.md section 8): how many
                    \* steps of it the run has followed so far, -1 once it
                    \* left the scenario, and the frames handed to the PHY

vars == <<pc, ctx, timer, ready, rx_message_id, tx_message_id, rx_frame,
          tx_msg, tx_header, retry, ok, result, sent, hist, ev, pe_new, scenario>>

\* The state as one record, so that the code between two suspension points
\* composes as functions from state to state.
State ==
    [pc |-> pc, ctx |-> ctx, timer |-> timer, ready |-> ready,
     rx_message_id |-> rx_message_id, tx_message_id |-> tx_message_id,
     rx_frame |-> rx_frame, tx_msg |-> tx_msg, tx_header |-> tx_header,
     retry |-> retry, ok |-> ok, result |-> result, sent |-> sent,
     hist |-> hist, ev |-> ev]

\* Scenario S1: the PHY reports no error and the Source sends
\* SourceCapabilities with message_id 0, a GoodCRC matching the Request,
\* Accept with message_id 1 and PsRdy with message_id 2, no timer expiring.
\* S1Expected(n, e) says that the step recorded in e is step n + 1 of it.
S1Expected(n, e) ==
    CASE n = 0 -> /\ e.op = "rx_read" /\ e.res = "Ok"
                  /\ e.rx = Frame(SourceHeader(SourceCapabilites, 0, 1), <<SourcePdo>>)
      [] n = 1 -> e.op = "rx_goodcrc" /\ e.res = "Ok"
      [] n = 2 -> e.op = "tx_send" /\ e.res = "Ok"
      [] n = 3 -> /\ e.op = "tx_wait" /\ e.res = "Ok"
                  /\ e.rx = Frame(SourceHeader(GoodCRC,
                                    message_id(e.pre.tx_header), 0), <<>>)
      [] n = 4 -> /\ e.op = "rx_read" /\ e.res = "Ok"
                  /\ e.rx = Frame(SourceHeader(Accept, 1, 0), <<>>)
      [] n = 5 -> e.op = "rx_goodcrc" /\ e.res = "Ok"
      [] n = 6 -> /\ e.op = "rx_read" /\ e.res = "Ok"
                  /\ e.rx = Frame(SourceHeader(PsRdy, 2, 0), <<>>)
      [] n = 7 -> e.op = "rx_goodcrc" /\ e.res = "Ok"
      [] OTHER -> FALSE

S1Observe(o, e) ==
    IF o.step >= 0 /\ S1Expected(o.step, e)
    THEN [step |-> o.step + 1,
          wire |-> IF e.phy = NoFrame THEN o.wire ELSE Append(o.wire, e.phy)]
    ELSE [step |-> -1, wire |-> <<>>]

Commit(s) ==
    /\ pc' = s.pc
    /\ ctx' = s.ctx
    /\ timer' = s.timer
    /\ ready' = s.ready
    /\ rx_message_id' = s.rx_message_id
    /\ tx_message_id' = s.tx_message_id
    /\ rx_frame' = s.rx_frame
    /\ tx_msg' = s.tx_msg
    /\ tx_header' = s.tx_header
    /\ retry' = s.retry
    /\ ok' = s.ok
    /\ result' = s.result
    /\ sent' = s.sent
    /\ hist' = s.hist
    /\ ev' = s.ev
    /\ pe_new' = pe_new
    /\ scenario' = S1Observe(scenario, s.ev)

\* The record of a step: the PHY call made (op), its outcome (res), the frame
\* the PHY returned (rx) or was handed (phy), and the ids and flag before it.
\* The code run after the call fills in: the message ProtocolEngine::receive
\* returned (delivered), the message a ProtocolEngine::transmit call was
\* started for (started) and the value a ProtocolEngine call returned (ret).
Event(op, res, rx, phy) ==
    [op |-> op, res |-> res, rx |-> rx, phy |-> phy,
     delivered |-> NoMsg, started |-> NoMsg, ret |-> "none",
     pre |-> [rx_message_id |-> rx_message_id, tx_message_id |-> tx_message_id,
              tx_header |-> tx_header, ready |-> ready, ctx |-> ctx,
              hist |-> hist]]

Begin(op, res, rx, phy) == [State EXCEPT !.ev = Event(op, res, rx, phy)]

\* PolicyEngine::run and ProtocolEngine::new: the task starts in run's loop,
\* inside ProtocolEngine::receive, about to read from the PHY.
InitTask ==
    /\ pc = "rx_read"
    /\ ctx = "top"
    /\ timer = "none"
    /\ ready = FALSE
    /\ rx_message_id = None
    /\ tx_message_id = 0
    /\ rx_frame = NoFrame
    /\ tx_msg = NoMsg
    /\ tx_header = 0
    /\ retry = 0
    /\ ok = FALSE
    /\ result = "running"
    /\ sent = <<>>
    /\ hist = [last_delivered_id |-> None, last_delivered_acked |-> FALSE,
               soft_reset_sent |-> FALSE, hard_reset_sent |-> FALSE,
               consumed_id |-> None]
    /\ ev = [op |-> "init", res |-> "none", rx |-> NoFrame, phy |-> NoFrame,
             delivered |-> NoMsg, started |-> NoMsg, ret |-> "none",
             pre |-> [rx_message_id |-> None, tx_message_id |-> 0,
                      tx_header |-> 0, ready |-> FALSE, ctx |-> "top",
                      hist |-> [last_delivered_id |-> None,
                                last_delivered_acked |-> FALSE,
                                soft_reset_sent |-> FALSE,
                                hard_reset_sent |-> FALSE,
                                consumed_id |-> None]]]
    /\ scenario = [step |-> 0, wire |-> <<>>]

\* main.rs: PolicyEngine::new(protocol_engine, 100) has returned
Init ==
    /\ InitTask
    /\ pe_new = [ma |-> OperatingCurrentMa,
                 out |-> [kind |-> "ok", value |-> operating_current]]

\* ----- Policy Engine: what happens between two awaits ------------------
\* u4::from(ControlMessageType) for the types the sink transmits
ControlInto(t) ==
    CASE t = "GoodCRC" -> GoodCRC
      [] t = "Accept" -> Accept
      [] t = "Reject" -> Reject
      [] t = "SoftReset" -> SoftReset

\* u4::from(DataMessageType) for the types the sink transmits
DataInto(t) ==
    CASE t = "Request" -> Request
      [] t = "SinkCapabilities" -> SinkCapabilities

\* The locals of a finished ProtocolEngine call go out of scope.
DropLocals(s) ==
    [s EXCEPT !.rx_frame = NoFrame, !.tx_msg = NoMsg, !.tx_header = 0,
              !.retry = 0, !.ok = FALSE, !.sent = <<>>]

\* run: Err(Error::HardReset) => return Err(HardReset)
RunReturnsHardReset(s) ==
    [DropLocals(s) EXCEPT !.pc = "done", !.result = "HardReset", !.timer = "none"]

\* run: Ok(r) => ready = r, then the loop calls self.receive again
LoopAgain(s, r) ==
    [DropLocals(s) EXCEPT !.ready = r, !.pc = "rx_read", !.ctx = "top", !.timer = "none"]

SoftResetSignal_KeepsReady(s) == LoopAgain(s, s.ready)

\* run: Err(Error::SoftReset) => ready = false, then the loop goes on
SoftResetSignal(s) == LoopAgain(s, FALSE)

\* receive_timeout: with_timeout(timeout, self.receive(&mut []))
AwaitReceiveTimeout(s, which, timeout) ==
    [DropLocals(s) EXCEPT !.pc = "rx_read", !.ctx = which, !.timer = timeout]

\* Fault variant of handle_hard_reset: rx_message_id is left as it was.
handle_hard_reset_KeepsRx(s) ==
    [s EXCEPT !.tx_message_id = 0, !.ev.ret = "HardReset"]

\* ProtocolEngine::handle_hard_reset
handle_hard_reset(s) ==
    [s EXCEPT !.rx_message_id = None, !.tx_message_id = 0, !.ev.ret = "HardReset"]

\* Fault variant of PhyHardReset: the hard reset is handled like a SoftReset
\* and run keeps looping.
PhyHardReset_KeepsLooping(s) == SoftResetSignal(handle_hard_reset(s))

\* A PHY call reported HardReset: handle_hard_reset()? and every caller's ?
PhyHardReset(s) == RunReturnsHardReset(handle_hard_reset(s))

\* Fault variant of SoftResetClearsRx: nothing is cleared.
SoftResetClearsRx_Never(s, msg) == s

\* ProtocolEngine::transmit up to its first PHY call: a SoftReset clears
\* rx_message_id, the header is built from the template
SoftResetClearsRx(s, msg) ==
    IF msg = Control("SoftReset") THEN [s EXCEPT !.rx_message_id = None] ELSE s

BuildTxHeader(id, msg) ==
    set_number_of_data_objects(
        set_message_type(
            set_message_id(header_template, id),
            IF msg.kind = "Control" THEN ControlInto(msg.type) ELSE DataInto(msg.type)),
        Len(msg.objs))

StartTransmit(s, msg) ==
    LET s1 == SoftResetClearsRx(s, msg)
    IN [s1 EXCEPT !.pc = "tx_send", !.tx_msg = msg,
                  !.tx_header = BuildTxHeader(s1.tx_message_id, msg),
                  !.retry = 0, !.ok = FALSE, !.sent = <<>>, !.rx_frame = NoFrame,
                  !.ev.started = msg,
                  !.hist.soft_reset_sent = (@ \/ msg = Control("SoftReset"))]

\* PolicyEngine::transmit_hard_reset: the next await is the PHY's
\* transmit_hardreset
transmit_hard_reset(s) == [DropLocals(s) EXCEPT !.pc = "hr_send"]

\* PolicyEngine::transmit_soft_reset, up to its first await
transmit_soft_reset(s) == StartTransmit(s, Control("SoftReset"))

\* PolicyEngine::sink_capabilities
sink_capabilities(s) ==
    StartTransmit(s, Data("SinkCapabilities",
        <<FixedSupplyNew(operating_current, 10, 0, 0, 0, 0, 0, 0, 0)>>))

\* Fault variant of power_negotiation: the minimum current is left at 0.
power_negotiation_NoMinCurrent(s) ==
    StartTransmit(s, Data("Request",
        <<RequestNew(0, operating_current, 0, 0, 0, 0, 0, 1, 0)>>))

\* PolicyEngine::power_negotiation, up to its first await
power_negotiation(s) ==
    StartTransmit(s, Data("Request",
        <<RequestNew(operating_current, operating_current, 0, 0, 0, 0, 0, 1, 0)>>))

handle_message_RejectsVendorDefined(s, msg) ==
    CASE msg = Control("Ping") -> LoopAgain(s, s.ready)
      [] msg = Control("GetSinkCap") -> sink_capabilities(s)
      [] msg.kind = "Data" /\ msg.type = "SourceCapabilites" -> power_negotiation(s)
      [] OTHER -> StartTransmit(s, Control("Reject"))

handle_message_IgnoresUnknown(s, msg) ==
    CASE msg = Control("GetSinkCap") -> sink_capabilities(s)
      [] msg.kind = "Data" /\ msg.type = "SourceCapabilites" -> power_negotiation(s)
      [] OTHER -> LoopAgain(s, s.ready)

\* PolicyEngine::handle_message
handle_message(s, msg) ==
    CASE msg = Control("Ping") -> LoopAgain(s, s.ready)
      [] msg = Control("GetSinkCap") -> sink_capabilities(s)
      [] msg.kind = "Data" /\ msg.type = "SourceCapabilites" -> power_negotiation(s)
      [] msg.kind = "Data" /\ msg.type = "VendorDefined" -> LoopAgain(s, s.ready)
      [] OTHER -> StartTransmit(s, Control("Reject"))

power_negotiation_response_ClearsReady(s, msg) ==
    CASE msg = Control("Accept") ->
             AwaitReceiveTimeout(s, "psrdy_wait", "ps_transition")
      [] msg \in {Control("Reject"), Control("Wait")} -> LoopAgain(s, FALSE)
      [] OTHER -> transmit_soft_reset(s)

\* power_negotiation: the match on the answer to the Request
power_negotiation_response(s, msg) ==
    CASE msg = Control("Accept") ->
             AwaitReceiveTimeout(s, "psrdy_wait", "ps_transition")
      [] msg \in {Control("Reject"), Control("Wait")} -> LoopAgain(s, s.ready)
      [] OTHER -> transmit_soft_reset(s)

power_negotiation_ps_rdy_AnyMessage(s, msg) == LoopAgain(s, TRUE)

power_negotiation_ps_rdy_ReadyNotSet(s, msg) ==
    IF msg = Control("PsRdy") THEN LoopAgain(s, s.ready) ELSE transmit_soft_reset(s)

\* power_negotiation: the match on the message after Accept
power_negotiation_ps_rdy(s, msg) ==
    IF msg = Control("PsRdy") THEN LoopAgain(s, TRUE) ELSE transmit_soft_reset(s)

PolicyReceive_NoSoftResetCheck(s, msg) ==
    CASE s.ctx = "top" -> handle_message(s, msg)
      [] s.ctx = "accept_wait" ->
             power_negotiation_response([s EXCEPT !.timer = "none"], msg)
      [] s.ctx = "psrdy_wait" ->
             power_negotiation_ps_rdy([s EXCEPT !.timer = "none"], msg)

\* PolicyEngine::receive, after ProtocolEngine::receive returned msg; the
\* callers are run (ctx top) and receive_timeout, whose with_timeout ends
\* when receive returns Ok
PolicyReceive(s, msg) ==
    IF msg = Control("SoftReset")
    THEN StartTransmit(s, Control("Accept"))
    ELSE CASE s.ctx = "top" -> handle_message(s, msg)
           [] s.ctx = "accept_wait" ->
                  power_negotiation_response([s EXCEPT !.timer = "none"], msg)
           [] s.ctx = "psrdy_wait" ->
                  power_negotiation_ps_rdy([s EXCEPT !.timer = "none"], msg)

\* transmit_soft_reset, after its ProtocolEngine::receive returned msg
SoftResetAnswer(s, msg) ==
    IF msg # Control("Accept") THEN transmit_hard_reset(s) ELSE SoftResetSignal(s)

\* ProtocolEngine::receive returns Ok(msg) to the await that called it
Deliver(s, msg) ==
    LET s1 == [s EXCEPT !.ev.delivered = msg, !.ev.ret = "message",
                        !.hist.last_delivered_id = message_id(s.rx_frame.hdr),
                        !.hist.last_delivered_acked = (s.ev.res = "Ok"),
                        !.hist.soft_reset_sent = FALSE,
                        !.hist.consumed_id = None]
    IN IF s1.ctx = "sr_accept_wait" THEN SoftResetAnswer(s1, msg)
       ELSE PolicyReceive(s1, msg)

TransmitReturned_IgnoresFailure(s, msg, success) ==
    IF msg = Control("SoftReset")
    THEN IF ~success THEN transmit_hard_reset(s)
         ELSE [DropLocals(s) EXCEPT !.pc = "rx_read", !.ctx = "sr_accept_wait"]
    ELSE CASE msg = Control("Accept") -> SoftResetSignal(s)
           [] msg.kind = "Data" /\ msg.type = "Request" ->
                  AwaitReceiveTimeout(s, "accept_wait", "sender_response")
           [] OTHER -> LoopAgain(s, s.ready)

\* PolicyEngine::transmit and transmit_soft_reset, after
\* ProtocolEngine::transmit returned Ok(success)
TransmitReturned(s, msg, success) ==
    IF msg = Control("SoftReset")
    THEN IF ~success
         THEN transmit_hard_reset(s)
         ELSE [DropLocals(s) EXCEPT !.pc = "rx_read", !.ctx = "sr_accept_wait"]
    ELSE IF ~success
         THEN transmit_soft_reset(s)
         ELSE CASE msg = Control("Accept") -> SoftResetSignal(s)
                [] msg.kind = "Data" /\ msg.type = "Request" ->
                       AwaitReceiveTimeout(s, "accept_wait", "sender_response")
                [] OTHER -> LoopAgain(s, s.ready)

\* ----- Protocol Engine -------------------------------------------------
\* transmit: self.tx_message_id.wrapping_add(u3::new(1)); the sum is a
\* value that the statement drops, the field is not assigned
TxMessageIdAfterTransmit(id) == id

\* transmit: the end of the function, Ok(ok), and the caller's reaction
FinishTransmit(s) ==
    LET s1 == [s EXCEPT !.tx_message_id = TxMessageIdAfterTransmit(@),
                        !.ev.ret = IF s.ok THEN "true" ELSE "false"]
    IN TransmitReturned(s1, s.tx_msg, s.ok)

\* Fault variant of NextAttempt: the id of the frame read in place of the
\* GoodCRC is stored as rx_message_id.
NextAttempt_RecordsRxId(s) ==
    LET t == IF s.ev.rx = NoFrame \/ s.ev.rx.n < 2 THEN s
             ELSE [s EXCEPT !.rx_message_id = message_id(s.ev.rx.hdr)]
    IN IF t.retry >= RETRY_COUNT
       THEN FinishTransmit(t)
       ELSE [t EXCEPT !.retry = @ + 1, !.pc = "tx_send"]

\* transmit: continue inside for _retry in 0..=RETRY_COUNT
NextAttempt(s) ==
    IF s.retry >= RETRY_COUNT
    THEN FinishTransmit(s)
    ELSE [s EXCEPT !.retry = @ + 1, !.pc = "tx_send"]

\* Fault variant of InvalidGoodCRC: the message id is not compared.
InvalidGoodCRC_AnyId(goodcrc, id) ==
    \/ number_of_data_objects(goodcrc) # 0
    \/ message_type(goodcrc) # GoodCRC

\* transmit: the test of the two bytes received in place of a GoodCRC
InvalidGoodCRC(goodcrc, id) ==
    \/ number_of_data_objects(goodcrc) # 0
    \/ message_type(goodcrc) # GoodCRC
    \/ message_id(goodcrc) # id

\* Fault variant of GoodCrcMatched: ok = true without the break.
GoodCrcMatched_NoBreak(s) == NextAttempt([s EXCEPT !.ok = TRUE])

\* transmit: ok = true; break
GoodCrcMatched(s) == FinishTransmit([s EXCEPT !.ok = TRUE])

\* History: a frame with a header that the wait for the GoodCRC read and
\* that is not the matching GoodCRC
NoteConsumed(s, f) ==
    IF f.n # 2 \/ InvalidGoodCRC(f.hdr, s.tx_message_id)
    THEN [s EXCEPT !.hist.consumed_id = message_id(f.hdr)]
    ELSE s

\* transmit: the arm Ok(Ok(2)) of the wait for the GoodCRC
GoodCrcReply(s, goodcrc) ==
    IF InvalidGoodCRC(goodcrc, s.tx_message_id)
    THEN NextAttempt(s)
    ELSE GoodCrcMatched(s)

\* Fault variant of LengthOk: the length is not compared with the header.
LengthOk_HeaderOnly(f) == f.n >= 2

\* receive: the length checks on a frame of n bytes
LengthOk(f) ==
    /\ f.n >= 2
    /\ f.n = 2 + 4 * number_of_data_objects(f.hdr)

\* Fault variant of GoodCrcHeader: the received message id is not copied.
GoodCrcHeader_TemplateId(rx_header) == set_message_type(header_template, GoodCRC)

\* receive: the GoodCRC header for a received header
GoodCrcHeader(rx_header) ==
    set_message_id(set_message_type(header_template, GoodCRC),
                   message_id(rx_header))

\* receive: obj_buf.len() of the caller: run passes [0; 7], the timed
\* receives pass &mut []
ObjBufLen(c) == IF c = "top" THEN 7 ELSE 0

Min(a, b) == IF a < b THEN a ELSE b

\* receive: the message built from the frame
DecodeMessage(f, obj_buf_len) ==
    IF number_of_data_objects(f.hdr) = 0
    THEN Control(ControlMessageType(message_type(f.hdr)))
    ELSE Data(DataMessageType(message_type(f.hdr)),
              SubSeq(f.words, 1, Min(obj_buf_len, number_of_data_objects(f.hdr))))

\* Fault variant of ReceivedSoftReset: the ids are left as they were.
ReceivedSoftReset_Ignored(s, rx_header) == s

\* receive: "Handle soft reset"
ReceivedSoftReset(s, rx_header) ==
    IF number_of_data_objects(rx_header) = 0 /\ message_type(rx_header) = SoftReset
    THEN [s EXCEPT !.rx_message_id = None, !.tx_message_id = 0]
    ELSE s

\* Fault variant of IsDuplicate: no frame is taken for a duplicate.
IsDuplicate_Never(s, rx_header) == FALSE

\* receive: the duplicate test
IsDuplicate(s, rx_header) == s.rx_message_id = message_id(rx_header)

\* receive: from "Handle soft reset" to the return
AfterGoodCRC(s) ==
    LET rx_header == s.rx_frame.hdr
        s1 == ReceivedSoftReset(s, rx_header)
    IN IF IsDuplicate(s1, rx_header)
       THEN [s1 EXCEPT !.pc = "rx_read", !.rx_frame = NoFrame]
       ELSE Deliver([s1 EXCEPT !.rx_message_id = message_id(rx_header)],
                    DecodeMessage(s.rx_frame, ObjBufLen(s.ctx)))

\* receive: Err(TxError::Discarded) => warn!(...), and the code after the
\* match runs as for Ok
GoodCrcDiscarded(s) == AfterGoodCRC(s)

\* receive: the match on the result of transmitting the GoodCRC
GoodCrcResult(s, res) ==
    CASE res = "Discarded" -> GoodCrcDiscarded(s)
      [] res = "HardReset" -> PhyHardReset(s)
      [] res = "Ok" -> AfterGoodCRC(s)

\* ----- actions: one per suspension point --------------------------------
\* receive: self.phy.receive(buf).await and the checks on what it returned
ReceivePhy ==
    /\ pc = "rx_read"
    /\ \/ \E f \in RxFrames :
            LET s == Begin("rx_read", "Ok", f, NoFrame)
            IN Commit(IF LengthOk(f)
                      THEN [s EXCEPT !.pc = "rx_goodcrc", !.rx_frame = f]
                      ELSE s)
       \/ \E e \in {"Crc", "Overrun"} : Commit(Begin("rx_read", e, NoFrame, NoFrame))
       \/ Commit(PhyHardReset(Begin("rx_read", "HardReset", NoFrame, NoFrame)))

\* receive: self.phy.transmit(&tx_buf).await for the GoodCRC, then the rest
\* of the loop body and, on a return, the Policy Engine up to its next await
ReceiveGoodCRC ==
    /\ pc = "rx_goodcrc"
    /\ \E res \in {"Ok", "Discarded", "HardReset"} :
          Commit(GoodCrcResult(
              Begin("rx_goodcrc", res, rx_frame,
                    Frame(GoodCrcHeader(rx_frame.hdr), <<>>)), res))

\* transmit: self.phy.transmit(buf).await inside the retry loop
TransmitPhy ==
    /\ pc = "tx_send"
    /\ \E res \in {"Ok", "Discarded", "HardReset"} :
          LET f == Frame(tx_header, tx_msg.objs)
              s == [Begin("tx_send", res, NoFrame, f) EXCEPT !.sent = Append(@, f)]
          IN Commit(CASE res = "Ok" -> [s EXCEPT !.pc = "tx_wait"]
                      [] res = "Discarded" -> NextAttempt(s)
                      [] res = "HardReset" -> PhyHardReset(s))

\* transmit: with_timeout(TIMEOUT_RECEIVE, self.phy.receive(&mut goodcrc_buf))
\* with a buffer of two bytes: a longer frame is the PHY's Overrun
TransmitAwaitGoodCRC ==
    /\ pc = "tx_wait"
    /\ \/ \E f \in {g \in RxFrames : g.n = 2} :
            Commit(GoodCrcReply(NoteConsumed(Begin("tx_wait", "Ok", f, NoFrame), f),
                                f.hdr))
       \/ \E f \in {g \in RxFrames : g.n < 2} :
            Commit(NextAttempt(Begin("tx_wait", "Ok", f, NoFrame)))
       \/ \E f \in {g \in RxFrames : g.n > 2} :
            Commit(NextAttempt(NoteConsumed(Begin("tx_wait", "Overrun", f, NoFrame), f)))
       \/ Commit(NextAttempt(Begin("tx_wait", "Crc", NoFrame, NoFrame)))
       \/ Commit(PhyHardReset(Begin("tx_wait", "HardReset", NoFrame, NoFrame)))
       \/ Commit(NextAttempt(Begin("tx_wait", "Timeout", NoFrame, NoFrame)))

\* ProtocolEngine::transmit_hard_reset: self.phy.transmit_hardreset().await,
\* its result dropped; every caller then returns Err(HardReset)
TransmitHardReset ==
    /\ pc = "hr_send"
    /\ Commit(RunReturnsHardReset(
          [Begin("hr_send", "Ok", NoFrame, NoFrame)
              EXCEPT !.hist.hard_reset_sent = TRUE]))

\* receive_timeout: the with_timeout around self.receive expires;
\* map_err(|_| HardReset) and the ? of every caller up to run
ReceiveTimeoutExpired ==
    /\ timer # "none"
    /\ pc # "done"
    /\ Commit(RunReturnsHardReset(Begin("receive_timeout", timer, NoFrame, NoFrame)))

\* transmit_soft_reset: the with_timeout around protocol_engine.receive
\* expires; map_err(|_| HardReset)
SoftResetTimeoutExpired ==
    /\ ctx = "sr_accept_wait"
    /\ pc \in {"rx_read", "rx_goodcrc"}
    /\ Commit(RunReturnsHardReset(Begin("soft_reset_timeout", "Timeout", NoFrame, NoFrame)))

Next ==
    \/ ReceivePhy
    \/ ReceiveGoodCRC
    \/ TransmitPhy
    \/ TransmitAwaitGoodCRC
    \/ TransmitHardReset
    \/ ReceiveTimeoutExpired
    \/ SoftResetTimeoutExpired

Spec == Init /\ [][Next]_vars

\* ----- PolicyEngine::new as a function of its argument ------------------
U16 == 0 .. 65535

\* Before PolicyEngine::new is called, for every u16 argument
InitNew ==
    /\ InitTask
    /\ pe_new \in [ma : U16, out : {[kind |-> "pending", value |-> None]}]

\* The call of PolicyEngine::new
New ==
    /\ pe_new.out.kind = "pending"
    /\ \E o \in PolicyEngineNew(pe_new.ma) : pe_new' = [pe_new EXCEPT !.out = o]
    /\ UNCHANGED <<pc, ctx, timer, ready, rx_message_id, tx_message_id, rx_frame,
                   tx_msg, tx_header, retry, ok, result, sent, hist, ev, scenario>>

NextNew == New

SpecNew == InitNew /\ [][NextNew]_vars

\* ----- properties ------------------------------------------------------
TransmitReturnedOk == ev.ret \in {"true", "false"}

IsGoodCrcFrame(f) ==
    /\ f.n = 2
    /\ number_of_data_objects(f.hdr) = 0
    /\ message_type(f.hdr) = GoodCRC

IsSoftResetFrame(f) ==
    /\ f.n = 2
    /\ number_of_data_objects(f.hdr) = 0
    /\ message_type(f.hdr) = SoftReset

\* The GoodCRC of a well-formed frame was handed to the PHY in this step and
\* the PHY did not report a hard reset.
GoodCrcStep == ev.op = "rx_goodcrc" /\ ev.res \in {"Ok", "Discarded"}

\* C1: every ProtocolEngine::transmit call that returns Ok(success) leaves
\* tx_message_id at (the id of its outbound header + 1) mod 8.
C1_TransmitIncrementsId ==
    TransmitReturnedOk =>
        tx_message_id = (message_id(ev.pre.tx_header) + 1) % 8

\* C2: a message that ProtocolEngine::receive returns was answered, after
\* the frame was read and before the return, by handing the PHY a GoodCRC
\* control header with the frame's message id.
C2_GoodCrcBeforeDelivery ==
    ev.delivered # NoMsg =>
        /\ ev.op = "rx_goodcrc"
        /\ LengthOk(ev.rx)
        /\ IsGoodCrcFrame(ev.phy)
        /\ message_id(ev.phy.hdr) = message_id(ev.rx.hdr)
        /\ ev.delivered.kind =
               (IF number_of_data_objects(ev.rx.hdr) = 0 THEN "Control" ELSE "Data")

C2_Witness ==
    /\ ev.delivered # NoMsg
    /\ message_id(ev.rx.hdr) = 1
    /\ ev.res = "Ok"

\* C3: when the PHY reports Discarded for the GoodCRC of a well-formed
\* frame, the frame is abandoned: nothing is returned, the ids keep their
\* values and the receive loop reads the next frame.
C3_DiscardedGoodCrcAbandonsFrame ==
    (ev.op = "rx_goodcrc" /\ ev.res = "Discarded") =>
        /\ ev.delivered = NoMsg
        /\ rx_message_id = ev.pre.rx_message_id
        /\ tx_message_id = ev.pre.tx_message_id
        /\ pc = "rx_read"
        /\ ctx = ev.pre.ctx

\* C4 as stated: a frame other than SoftReset whose message id is the id of
\* the last frame ProtocolEngine::receive delivered is never delivered (here
\* for frames whose GoodCRC the PHY accepted, as it did the last one's).
C4_NeverRedeliversLastId ==
    (/\ ev.delivered # NoMsg
     /\ ~IsSoftResetFrame(ev.rx)
     /\ ev.res = "Ok"
     /\ ev.pre.hist.last_delivered_acked) =>
        message_id(ev.rx.hdr) # ev.pre.hist.last_delivered_id

\* C4 amended: a frame other than SoftReset whose message id is the id of
\* the last delivered frame, with no SoftReset transmitted by the sink since
\* that delivery, is not delivered: its GoodCRC is handed to the PHY, the
\* loop reads the next frame and the Policy Engine starts no transmission
\* (no second Request for a repeated SourceCapabilities).
C4_NoRedeliveryUnlessSoftResetSent ==
    (/\ GoodCrcStep
     /\ ~IsSoftResetFrame(ev.rx)
     /\ message_id(ev.rx.hdr) = ev.pre.hist.last_delivered_id
     /\ ~ev.pre.hist.soft_reset_sent) =>
        /\ ev.delivered = NoMsg
        /\ IsGoodCrcFrame(ev.phy)
        /\ message_id(ev.phy.hdr) = message_id(ev.rx.hdr)
        /\ ev.started = NoMsg
        /\ pc = "rx_read"
        /\ ctx = ev.pre.ctx
        /\ ready = ev.pre.ready

C4_Witness ==
    /\ GoodCrcStep
    /\ ev.res = "Ok"
    /\ number_of_data_objects(ev.rx.hdr) = 1
    /\ message_type(ev.rx.hdr) = SourceCapabilites
    /\ message_id(ev.rx.hdr) = ev.pre.hist.last_delivered_id
    /\ ~ev.pre.hist.soft_reset_sent
    /\ ev.pre.ctx = "accept_wait"
    /\ ev.delivered = NoMsg

\* C5: one transmit call hands the frame to the PHY at most 4 times, every
\* time the same frame, and never again once a matching GoodCRC was seen.
C5_AtMostFourIdenticalAttempts ==
    /\ Len(sent) <= 4
    /\ \A i \in 1 .. Len(sent) : sent[i] = sent[1]
    /\ pc \in {"tx_send", "tx_wait"} => ~ok
    /\ (ev.op = "tx_send" /\ pc = "tx_wait") =>
           /\ sent[Len(sent)] = ev.phy
           /\ ev.phy.hdr = tx_header
           /\ message_id(ev.phy.hdr) = ev.pre.tx_message_id

C5_Witness == Len(sent) = 4 /\ pc = "tx_wait"

\* The reply of this step is two bytes that form a GoodCRC control header
\* with the message id of the outbound header.
MatchingGoodCrcSeen ==
    /\ ev.op = "tx_wait"
    /\ ev.res = "Ok"
    /\ IsGoodCrcFrame(ev.rx)
    /\ message_id(ev.rx.hdr) = message_id(ev.pre.tx_header)

\* C6: transmit returns success = true exactly in the step in which the
\* reply to an accepted attempt is a matching GoodCRC; any other reply, a
\* Crc/Overrun error, a timeout or a Discarded attempt never gives success.
C6_SuccessIffMatchingGoodCrc ==
    /\ ev.ret = "true" <=> MatchingGoodCrcSeen
    /\ ev.op = "tx_send" => ev.ret # "true"

C6_Witness == ev.ret = "true" /\ MatchingGoodCrcSeen

C8_ReceivedSoftResetDelivered ==
    (ev.op = "rx_goodcrc" /\ ev.res = "Ok" /\ IsSoftResetFrame(ev.rx)) =>
        /\ ev.delivered = Control("SoftReset")
        /\ tx_message_id = 0
        /\ rx_message_id = message_id(ev.rx.hdr)
        /\ ev.pre.ctx # "sr_accept_wait" =>
               /\ ev.started = Control("Accept")
               /\ message_id(tx_header) = 0
               /\ message_type(tx_header) = Accept

C8_Witness ==
    /\ ev.op = "rx_goodcrc"
    /\ ev.res = "Ok"
    /\ IsSoftResetFrame(ev.rx)
    /\ ev.pre.rx_message_id = message_id(ev.rx.hdr)
    /\ ev.started = Control("Accept")

\* C9: a HardReset reported by any PHY call inside receive or transmit
\* leaves rx_message_id none and tx_message_id 0, the call returns HardReset,
\* and neither a message nor a success value is returned.
C9_PhyHardResetResetsIds ==
    ev.res = "HardReset" =>
        /\ ev.op \in {"rx_read", "rx_goodcrc", "tx_send", "tx_wait"}
        /\ rx_message_id = None
        /\ tx_message_id = 0
        /\ ev.ret = "HardReset"
        /\ ev.delivered = NoMsg
        /\ result = "HardReset"
        /\ pc = "done"

C9_Witness ==
    /\ ev.res = "HardReset"
    /\ ev.op = "tx_wait"
    /\ ev.pre.rx_message_id # None

\* C10: when the wait for Accept/Reject/Wait or for PsRdy expires, the
\* Policy Engine has transmitted a hard reset through the PHY by the time
\* run returns HardReset.
C10_TimeoutTransmitsHardReset ==
    ev.op = "receive_timeout" =>
        /\ result = "HardReset"
        /\ hist.hard_reset_sent

IsSoftResetHeader(h) == number_of_data_objects(h) = 0 /\ message_type(h) = SoftReset

IsAcceptHeader(h) == number_of_data_objects(h) = 0 /\ message_type(h) = Accept

IsRejectHeader(h) == number_of_data_objects(h) = 0 /\ message_type(h) = Reject

IsRequestHeader(h) == number_of_data_objects(h) = 1 /\ message_type(h) = Request

\* C11: after the Policy Engine transmitted a SoftReset, whenever Accept is
\* not received in time (the SoftReset got no GoodCRC, another message
\* arrived, or the wait timed out), a hard reset has gone through the PHY by
\* the time run returns HardReset.
C11_FailedSoftResetTransmitsHardReset ==
    /\ (TransmitReturnedOk /\ IsSoftResetHeader(ev.pre.tx_header) /\ ev.ret = "false") =>
           pc = "hr_send"
    /\ (ev.delivered # NoMsg /\ ev.pre.ctx = "sr_accept_wait"
            /\ ev.delivered # Control("Accept")) =>
           pc = "hr_send"
    /\ ev.op = "soft_reset_timeout" =>
           /\ result = "HardReset"
           /\ hist.hard_reset_sent
    /\ (ev.op = "hr_send" /\ result = "HardReset") => hist.hard_reset_sent

\* C12: when a transmission of a message other than SoftReset returns
\* success = false, the next transmission the Policy Engine starts is
\* Control(SoftReset); when Accept is then delivered during the wait that
\* follows the SoftReset, run keeps looping with ready = FALSE and no hard
\* reset is transmitted.
C12_FailedTransmitStartsSoftReset ==
    /\ (TransmitReturnedOk /\ ~IsSoftResetHeader(ev.pre.tx_header) /\ ev.ret = "false") =>
           /\ ev.started = Control("SoftReset")
           /\ pc = "tx_send"
           /\ tx_msg = Control("SoftReset")
    /\ (ev.delivered = Control("Accept") /\ ev.pre.ctx = "sr_accept_wait") =>
           /\ pc = "rx_read" /\ ctx = "top" /\ timer = "none"
           /\ ~ready
           /\ result = "running"
           /\ ~hist.hard_reset_sent
           /\ ev.started = NoMsg

C12_Witness ==
    /\ ev.delivered = Control("Accept") /\ ev.pre.ctx = "sr_accept_wait"
    /\ ev.pre.ready
    /\ pc = "rx_read" /\ ctx = "top" /\ ~ready

WrapperContexts == {"top", "accept_wait", "psrdy_wait"}

\* C13: when PolicyEngine::receive obtains Control(SoftReset) (in the
\* top-level loop, or while waiting for Accept or PsRdy), the transmission it
\* starts is Control(Accept), never a Reject: the SoftReset does not reach
\* handle_message; and when that Accept transmission returns, either run is
\* back in its loop with ready = FALSE or the SoftReset exchange of a failed
\* transmission starts.
C13_SoftResetAnsweredWithAccept ==
    /\ (ev.delivered = Control("SoftReset") /\ ev.pre.ctx \in WrapperContexts) =>
           /\ ev.started = Control("Accept")
           /\ tx_msg = Control("Accept")
           /\ pc = "tx_send"
           /\ Len(sent) = 0
    /\ (TransmitReturnedOk /\ IsAcceptHeader(ev.pre.tx_header)) =>
           /\ ev.ret = "true" =>
                  (pc = "rx_read" /\ ctx = "top" /\ ~ready /\ ev.started = NoMsg)
           /\ ev.ret = "false" => ev.started = Control("SoftReset")
    /\ ev.started = Control("Reject") =>
           /\ ev.delivered \notin {NoMsg, Control("SoftReset")}
           /\ ev.pre.ctx = "top"

C13_Witness ==
    /\ TransmitReturnedOk /\ IsAcceptHeader(ev.pre.tx_header) /\ ev.ret = "true"
    /\ ev.pre.ready /\ ~ready
    /\ ev.pre.ctx = "psrdy_wait" /\ ctx = "top"

\* C14 as stated: in every state in which the Policy Engine waits for an
\* inbound message, the wait for Accept after its own SoftReset included, a
\* delivered SoftReset makes it start Control(Accept) and neither exit nor
\* transmit a hard reset.
C14_SoftResetAcceptedInEveryWait ==
    ev.delivered = Control("SoftReset") =>
        /\ ev.started = Control("Accept")
        /\ pc = "tx_send"
        /\ result = "running"

\* C14 amended: the statement holds in the waits that go through
\* PolicyEngine::receive (top-level loop, wait for Accept after a Request,
\* wait for PsRdy): the SoftReset is answered with Control(Accept), and when
\* that Accept is acknowledged run is back in its loop with ready = FALSE,
\* without exit or hard reset. In the wait for Accept after its own SoftReset
\* a delivered SoftReset is a message other than Accept and leads to the hard
\* reset.
C14_SoftResetAcceptedInWrapperWaits ==
    /\ (ev.delivered = Control("SoftReset") /\ ev.pre.ctx \in WrapperContexts) =>
           /\ ev.started = Control("Accept")
           /\ pc = "tx_send"
           /\ result = "running"
           /\ ~hist.hard_reset_sent
    /\ (ev.ret = "true" /\ IsAcceptHeader(ev.pre.tx_header)) =>
           /\ pc = "rx_read" /\ ctx = "top" /\ timer = "none"
           /\ ~ready
           /\ result = "running"
           /\ ~hist.hard_reset_sent
    /\ (ev.delivered = Control("SoftReset") /\ ev.pre.ctx = "sr_accept_wait") =>
           /\ pc = "hr_send"
           /\ ev.started = NoMsg

C14_Witness ==
    /\ ev.ret = "true" /\ IsAcceptHeader(ev.pre.tx_header)
    /\ ev.pre.ctx = "accept_wait" /\ ev.pre.ready
    /\ ctx = "top" /\ ~ready

S1Completed == scenario.step = 8

\* C15: when the run has followed scenario S1 to its end (error-free PHY,
\* SourceCapabilities id 0, GoodCRC matching the Request, Accept id 1 and
\* PsRdy id 2 in time), ready is TRUE and the frames handed to the PHY are
\* exactly GoodCRC(0), Request with message_id 0, GoodCRC(1), GoodCRC(2), in
\* that order.
C15_HappyPathWire ==
    S1Completed =>
        /\ ready
        /\ result = "running" /\ pc = "rx_read" /\ ctx = "top"
        /\ Len(scenario.wire) = 4
        /\ IsGoodCrcFrame(scenario.wire[1]) /\ message_id(scenario.wire[1].hdr) = 0
        /\ scenario.wire[2].n = 6
        /\ IsRequestHeader(scenario.wire[2].hdr) /\ message_id(scenario.wire[2].hdr) = 0
        /\ scenario.wire[2].words =
               <<RequestNew(operating_current, operating_current, 0, 0, 0, 0, 0, 1, 0)>>
        /\ IsGoodCrcFrame(scenario.wire[3]) /\ message_id(scenario.wire[3].hdr) = 1
        /\ IsGoodCrcFrame(scenario.wire[4]) /\ message_id(scenario.wire[4].hdr) = 2

C15_Witness == S1Completed /\ ready /\ Len(scenario.wire) = 4

\* C16: ready goes from FALSE to TRUE only in the step that delivers
\* Control(PsRdy) to the wait for PsRdy; that wait is entered only by the
\* delivery of Control(Accept) to the wait for Accept, and that one only by a
\* Request transmission that returned success; while the task stays in one
\* of the two waits only receive steps that delivered nothing have happened
\* and the timer is running; a step that ends a negotiation
\* by a timeout, a hard reset, a received SoftReset or an unexpected message
\* does not set ready, and run is back in its loop after a reset exchange
\* only with ready = FALSE.
C16_ReadyOnlyAfterFullNegotiation ==
    /\ (ready /\ ~ev.pre.ready) =>
           /\ ev.op = "rx_goodcrc"
           /\ ev.pre.ctx = "psrdy_wait"
           /\ ev.delivered = Control("PsRdy")
           /\ pc = "rx_read" /\ ctx = "top" /\ result = "running"
    /\ (ctx = "psrdy_wait" /\ ev.pre.ctx # "psrdy_wait") =>
           /\ ev.pre.ctx = "accept_wait"
           /\ ev.op = "rx_goodcrc"
           /\ ev.delivered = Control("Accept")
    /\ (ctx = "accept_wait" /\ ev.pre.ctx # "accept_wait") =>
           /\ ev.op = "tx_wait"
           /\ ev.ret = "true"
           /\ IsRequestHeader(ev.pre.tx_header)
    /\ (ctx \in {"accept_wait", "psrdy_wait"} /\ pc \in {"rx_read", "rx_goodcrc"}) =>
           /\ timer # "none"
           /\ result = "running"
           /\ ev.pre.ctx = ctx =>
                  (ev.op \in {"rx_read", "rx_goodcrc"} /\ ev.delivered = NoMsg)
    /\ (ev.pre.ctx \in {"accept_wait", "psrdy_wait", "sr_accept_wait"}
            /\ ctx = "top" /\ ready) =>
           \/ ev.delivered = Control("PsRdy") /\ ev.pre.ctx = "psrdy_wait"
           \/ /\ ev.delivered \in {Control("Reject"), Control("Wait")}
              /\ ev.pre.ctx = "accept_wait"
              /\ ev.pre.ready

C16_Witness ==
    /\ ready /\ ~ev.pre.ready
    /\ ev.delivered = Control("PsRdy")
    /\ ev.pre.ctx = "psrdy_wait"

\* C17: when Control(Reject) or Control(Wait) is delivered to the wait for
\* Accept that follows a Request, ready keeps the value it had, no SoftReset
\* and no hard reset is transmitted, and run is back in its top-level loop.
C17_RejectOrWaitKeepsReady ==
    (ev.pre.ctx = "accept_wait"
        /\ ev.delivered \in {Control("Reject"), Control("Wait")}) =>
        /\ ready = ev.pre.ready
        /\ ev.started = NoMsg
        /\ pc = "rx_read" /\ ctx = "top" /\ timer = "none"
        /\ result = "running"
        /\ ~hist.hard_reset_sent

C17_Witness ==
    /\ ev.pre.ctx = "accept_wait"
    /\ ev.delivered = Control("Wait")
    /\ ev.pre.ready /\ ready
    /\ ctx = "top"

\* The messages handle_message does not answer with Reject, and SoftReset,
\* which does not reach it
NotRejected(msg) ==
    \/ msg \in {Control("Ping"), Control("GetSinkCap"), Control("SoftReset")}
    \/ msg.kind = "Data" /\ msg.type \in {"SourceCapabilites", "VendorDefined"}

\* C18: in the top-level loop a delivered message other than Ping,
\* GetSinkCap, SourceCapabilities, VendorDefined and SoftReset makes the
\* Policy Engine start one transmission, of Control(Reject); when that
\* transmission returns success, ready has the value it had, no further
\* transmission starts and run is at the receive of its loop.
C18_UnknownMessageRejectedOnce ==
    /\ (ev.delivered # NoMsg /\ ev.pre.ctx = "top" /\ ~NotRejected(ev.delivered)) =>
           /\ ev.started = Control("Reject")
           /\ tx_msg = Control("Reject")
           /\ pc = "tx_send" /\ Len(sent) = 0
           /\ ready = ev.pre.ready
    /\ (ev.ret = "true" /\ IsRejectHeader(ev.pre.tx_header)) =>
           /\ ready = ev.pre.ready
           /\ ev.started = NoMsg
           /\ pc = "rx_read" /\ ctx = "top"
           /\ result = "running"

C18_Witness ==
    /\ ev.ret = "true" /\ IsRejectHeader(ev.pre.tx_header)
    /\ ev.pre.ready /\ ready
    /\ pc = "rx_read" /\ ctx = "top"

\* Fields of the 32-bit sink Fixed-Supply object (sink_capabilities.rs)
FixedSupply_operating_current(obj) == obj % 1024

FixedSupply_voltage(obj) == (obj \div 1024) % 1024

FixedSupply_flags_and_tag(obj) == obj \div 1048576

\* C19: the answer to GetSinkCap is one Data(SinkCapabilities) message with
\* exactly one Fixed-Supply object: voltage field 100 (5 V in 50 mV units),
\* operating_current field the configured current in 10 mA units, the
\* reserved bits, the five flags and the supply-type tag all 0.
C19_SinkCapabilitiesFiveVolt ==
    (ev.delivered = Control("GetSinkCap") /\ ev.pre.ctx = "top") =>
        /\ ev.started.kind = "Data"
        /\ ev.started.type = "SinkCapabilities"
        /\ Len(ev.started.objs) = 1
        /\ FixedSupply_voltage(ev.started.objs[1]) = 100
        /\ FixedSupply_operating_current(ev.started.objs[1]) = operating_current
        /\ FixedSupply_flags_and_tag(ev.started.objs[1]) = 0

\* ceil(ma / 10)
CeilDiv10(ma) == (ma \div 10) + (IF ma % 10 = 0 THEN 0 ELSE 1)

\* C20: for every operating_current_ma of the u16 range PolicyEngine::new
\* returns, without overflow or abort, with operating_current =
\* ceil(ma / 10) when ma <= 10230 and 1023 when ma > 10230.
C20_OperatingCurrentSaturates ==
    pe_new.out.kind # "pending" =>
        /\ pe_new.out.kind = "ok"
        /\ pe_new.out.value =
               IF pe_new.ma <= 10230 THEN CeilDiv10(pe_new.ma) ELSE 1023

IsIgnored(msg) ==
    \/ msg = Control("Ping")
    \/ msg.kind = "Data" /\ msg.type = "VendorDefined"

\* C21: when Control(Ping) or Data(VendorDefined) is delivered to the
\* top-level loop, the Policy Engine starts no transmission: the only frame
\* handed to the PHY in the step is the Protocol Engine's GoodCRC, ready and
\* tx_message_id keep their values, and run is at the receive of its loop.
C21_PingAndVendorDefinedIgnored ==
    (ev.delivered # NoMsg /\ IsIgnored(ev.delivered) /\ ev.pre.ctx = "top") =>
        /\ ev.started = NoMsg
        /\ ev.op = "rx_goodcrc"
        /\ IsGoodCrcFrame(ev.phy)
        /\ pc = "rx_read" /\ ctx = "top"
        /\ result = "running"
        /\ ready = ev.pre.ready
        /\ tx_message_id = ev.pre.tx_message_id

C21_Witness ==
    /\ ev.delivered.kind = "Data" /\ ev.delivered.type = "VendorDefined"
    /\ ev.pre.ctx = "top"
    /\ ev.pre.ready /\ ready
    /\ pc = "rx_read"

\* A read of ProtocolEngine::receive that the code drops: a PHY Crc or
\* Overrun error, or a frame failing one of the two length checks
DroppedRead ==
    /\ ev.op = "rx_read"
    /\ \/ ev.res \in {"Crc", "Overrun"}
       \/ /\ ev.res = "Ok"
          /\ \/ ev.rx.n < 2
             \/ ev.rx.n # 2 + 4 * number_of_data_objects(ev.rx.hdr)

\* C22: a frame shorter than 2 bytes or of a length other than
\* 2 + 4 * number_of_data_objects, and a PHY Crc or Overrun error, have no
\* effect: no GoodCRC is handed to the PHY, rx_message_id and tx_message_id
\* are unchanged, nothing is delivered, and receive reads the next frame.
C22_MalformedFramesDropped ==
    DroppedRead =>
        /\ ev.phy = NoFrame
        /\ ev.delivered = NoMsg /\ ev.started = NoMsg /\ ev.ret = "none"
        /\ rx_message_id = ev.pre.rx_message_id
        /\ tx_message_id = ev.pre.tx_message_id
        /\ ready = ev.pre.ready /\ ctx = ev.pre.ctx
        /\ pc = "rx_read"
        /\ result = "running"

C22_Witness ==
    /\ DroppedRead
    /\ ev.res = "Ok" /\ ev.rx.n = 6 /\ number_of_data_objects(ev.rx.hdr) = 0
    /\ ev.pre.rx_message_id # None
    /\ pc = "rx_read"

\* Fields of the 32-bit request data object (request.rs)
Request_min_operating_current(obj) == obj % 1024

Request_operating_current(obj) == (obj \div 1024) % 1024

Request_reserved_and_flags(obj) == (obj \div 1048576) % 256

Request_object_position(obj) == (obj \div 268435456) % 8

IsRequest(msg) == msg.kind = "Data" /\ msg.type = "Request"

IsSourceCapabilities(msg) == msg.kind = "Data" /\ msg.type = "SourceCapabilites"

WellFormedRequest(msg) ==
    /\ Len(msg.objs) = 1
    /\ Request_object_position(msg.objs[1]) = 1
    /\ Request_min_operating_current(msg.objs[1]) = operating_current
    /\ Request_operating_current(msg.objs[1]) = operating_current
    /\ Request_reserved_and_flags(msg.objs[1]) = 0
    /\ (msg.objs[1] \div 268435456) \div 8 = 0

\* C23: a Request transmission starts only in the step that delivers a
\* SourceCapabilities message to the top-level loop, and every such step
\* starts exactly one; every Request started or in transmission carries
\* object_position 1, both current fields equal to the configured operating
\* current, and all flag bits 0.
C23_RequestOnlyForSourceCapabilities ==
    /\ IsRequest(ev.started) =>
           /\ IsSourceCapabilities(ev.delivered)
           /\ ev.pre.ctx = "top"
           /\ ev.op = "rx_goodcrc"
           /\ WellFormedRequest(ev.started)
    /\ (ev.delivered # NoMsg /\ IsSourceCapabilities(ev.delivered)
            /\ ev.pre.ctx = "top") =>
           /\ IsRequest(ev.started)
           /\ tx_msg = ev.started
           /\ pc = "tx_send" /\ Len(sent) = 0
    /\ (pc \in {"tx_send", "tx_wait"} /\ IsRequest(tx_msg)) =>
           /\ WellFormedRequest(tx_msg)
           /\ ctx = "top"
    /\ (ev.op # "rx_goodcrc" /\ pc = "tx_send" /\ Len(sent) = 0) => ~IsRequest(tx_msg)

C23_Witness ==
    /\ IsRequest(ev.started)
    /\ IsSourceCapabilities(ev.delivered)
    /\ ev.pre.ready
    /\ pc = "tx_send"

\* The PHY completes transmit_hardreset, so a task parked at that await goes
\* on.
SpecFair == Spec /\ WF_vars(TransmitHardReset)

HardResetIsTerminalStep ==
    /\ pc # "done"
    /\ ev'.res = "HardReset" => (pc' = "done" /\ result' = "HardReset")
    /\ pc = "hr_send" =>
           /\ pc' = "done" /\ result' = "HardReset"
           /\ ev'.phy = NoFrame /\ ev'.started = NoMsg
    /\ (pc' = "done") <=> (result' = "HardReset")
    /\ result' \in {"running", "HardReset"}
    /\ ev'.ret = "HardReset" => result' = "HardReset"

\* C24: a hard reset is terminal. A step in which the PHY reports HardReset
\* ends run with Err(HardReset); once the Policy Engine has called
\* transmit_hard_reset the only further step is the end of run with
\* Err(HardReset), and that step is taken; after run has returned no step
\* follows, so no frame is handed to the PHY; run ends in no other way.
C24_HardResetTerminal ==
    /\ [][HardResetIsTerminalStep]_vars
    /\ (pc = "hr_send") ~> (pc = "done" /\ result = "HardReset")

C24_Witness ==
    /\ pc = "done" /\ result = "HardReset"
    /\ ev.op = "hr_send"
    /\ hist.hard_reset_sent

\* The step is a wait for the GoodCRC that read a frame with a header which
\* is not the matching GoodCRC.
ConsumedByTransmit ==
    /\ ev.op = "tx_wait"
    /\ ev.rx # NoFrame /\ ev.rx.n >= 2
    /\ ev.rx.n # 2 \/ InvalidGoodCRC(ev.rx.hdr, ev.pre.tx_message_id)

\* C25: a frame read while transmit waits for the GoodCRC, and which is not
\* the matching GoodCRC, is consumed: no GoodCRC is handed to the PHY for it,
\* nothing is delivered, and rx_message_id keeps its value (or is cleared
\* when the failed transmission is followed by a SoftReset); when the frame
\* comes again with the same message_id and no other frame was delivered in
\* between, receive delivers it unless that id was the stored one already.
C25_FrameDuringGoodCrcWaitConsumed ==
    /\ ConsumedByTransmit =>
           /\ ev.phy = NoFrame
           /\ ev.delivered = NoMsg
           /\ ev.ret \in {"none", "false"}
           /\ \/ rx_message_id = ev.pre.rx_message_id
              \/ rx_message_id = None /\ ev.started = Control("SoftReset")
           /\ hist.last_delivered_id = ev.pre.hist.last_delivered_id
    /\ (ev.op = "rx_goodcrc" /\ ev.res = "Ok"
            /\ message_id(ev.rx.hdr) = ev.pre.hist.consumed_id
            /\ ev.pre.rx_message_id # message_id(ev.rx.hdr)) =>
           /\ ev.delivered # NoMsg
           /\ ev.ret = "message"
           /\ IsGoodCrcFrame(ev.phy)

C25_Witness ==
    /\ ev.op = "rx_goodcrc" /\ ev.res = "Ok"
    /\ ev.rx.n = 6
    /\ message_id(ev.rx.hdr) = ev.pre.hist.consumed_id
    /\ ev.pre.rx_message_id \notin {None, message_id(ev.rx.hdr)}
    /\ IsSourceCapabilities(ev.delivered)

====
